---- MODULE Spec2Model ----
(***************************************************************************)
(* Model of the readwise-reader-sync engine: one process that reads the    *)
(* checkpoint, pages through the remote list API with an unbounded retry   *)
(* loop, upserts every record of every page and finally commits the        *)
(* checkpoint.  Timestamps are integers counting sub-second ticks.         *)
(***************************************************************************)
EXTENDS Integers, Sequences, FiniteSets, TLC

(* ------------------------------ bounds --------------------------------- *)
MaxRuns == 2
MaxPages == 2
MaxRecords == 2
MaxEvents == 2
MaxRunEvents == 1
MaxPersists == 3
SubSecond == 2

(* --------------------------- program constants ------------------------- *)
DefaultRetryAfter == 60
TransportWait == 30
TooManyRequests == 429
ServerErrorFloor == 500
DaySeconds == 86400

(* Option<T>: the empty sequence is None, a one-element sequence is Some.  *)
None == <<>>
Some(x) == <<x>>

(* ------------------------------ models.rs ------------------------------ *)
Category == {"article", "email", "epub", "highlight", "note", "pdf", "rss", "tweet", "video"}
Location == {"archive", "feed", "later", "new", "shortlist"}

Ids == {"a", "b"}
Versions == {1, 2}

(* A decoded ReaderResult.  Two payload versions of one id differ in every *)
(* field except the id.                                                    *)
ReaderResult(i, v) ==
    [ id               |-> i,
      author           |-> Some(IF v = 1 THEN "ann" ELSE "bob"),
      category         |-> IF v = 1 THEN "article" ELSE "pdf",
      content          |-> Some(IF v = 1 THEN "text1" ELSE "text2"),
      created_at       |-> 10 * v,
      image_url        |-> IF v = 1 THEN None ELSE Some("img2"),
      location         |-> IF v = 1 THEN Some("new") ELSE Some("archive"),
      notes            |-> IF v = 1 THEN None ELSE Some("note2"),
      parent_id        |-> IF v = 1 THEN None ELSE Some("parent2"),
      published_date   |-> IF v = 1 THEN None ELSE Some(7),
      reading_progress |-> v - 1,
      readwise_url     |-> Some(IF v = 1 THEN "rw1" ELSE "rw2"),
      site_name        |-> Some(IF v = 1 THEN "site1" ELSE "site2"),
      source           |-> Some(IF v = 1 THEN "src1" ELSE "src2"),
      source_url       |-> Some(IF v = 1 THEN "url1" ELSE "url2"),
      summary          |-> IF v = 1 THEN None ELSE Some("sum2"),
      tags             |-> IF v = 1 THEN None ELSE Some("tags2"),
      title            |-> IF v = 1 THEN "Untitled" ELSE "B",
      updated_at       |-> Some(10 * v + 1),
      word_count       |-> 100 * (v - 1) ]

Documents == { ReaderResult(i, v) : i \in Ids, v \in Versions }

(* The remote list, in the order the remote serves it: the ids alternate   *)
(* and an id that comes again comes with its newer payload.                *)
RemoteList ==
    [ k \in 1..MaxRecords |->
        ReaderResult(IF k % 2 = 1 THEN "a" ELSE "b", IF k <= Cardinality(Ids) THEN 1 ELSE 2) ]

Columns == DOMAIN ReaderResult("a", 1)

RECURSIVE Flatten(_)
Flatten(ss) == IF ss = <<>> THEN <<>> ELSE Head(ss) \o Flatten(Tail(ss))

(* ------------------------ models.rs: decoding -------------------------- *)
(* A JSON value on the wire, or a key that is not there (t = "missing").   *)
(* A number is an i64 that chrono can hold as a timestamp ("int"), an i64  *)
(* beyond that range ("far") or a number that is no i64 ("float").  A      *)
(* string is the RFC 3339 text of the instant n ("rfc3339"), the %Y-%m-%d  *)
(* text of the day n ("date") or any other text s ("text").                *)
Json(t, form, n, s) == [ t |-> t, form |-> form, n |-> n, s |-> s ]
JMissing == Json("missing", "", 0, "")
JNull == Json("null", "", 0, "")
JBool == Json("bool", "", 0, "")
JObject == Json("object", "", 0, "")
JInt(n) == Json("number", "int", n, "")
JFar == Json("number", "far", 0, "")
JFloat == Json("number", "float", 0, "")
JDateTime(ts) == Json("string", "rfc3339", ts, "")
JDate(day) == Json("string", "date", day, "")
JText(s) == Json("string", "text", 0, s)

FieldOk(val) == [ ok |-> TRUE, val |-> val, err |-> "" ]
FieldErr(err) == [ ok |-> FALSE, val |-> None, err |-> err ]

(* DateTime::from_timestamp(ts, 0)                                         *)
from_timestamp(ts) == ts * SubSecond

(* date.and_hms_opt(0, 0, 0).unwrap().and_utc()                            *)
and_hms_utc(day) == from_timestamp(day * DaySeconds)

deserialize_published_date(v) ==
    IF v.t = "null" THEN FieldOk(None)
    ELSE IF v.t = "number"
         THEN IF v.form = "float" THEN FieldErr("invalid timestamp number")
              ELSE IF v.form = "far" THEN FieldErr("timestamp out of range")
              ELSE FieldOk(Some(from_timestamp(v.n)))
    ELSE IF v.t = "string"
         THEN IF v.form = "rfc3339" THEN FieldOk(Some(v.n))
              ELSE IF v.form = "date" THEN FieldOk(Some(and_hms_utc(v.n)))
              ELSE FieldOk(None)
    ELSE FieldOk(None)

(* Option<i32>::deserialize, then unwrap_or(0)                             *)
deserialize_word_count(v) ==
    IF v.t = "null" THEN FieldOk(0)
    ELSE IF v.t = "number" /\ v.form = "int" THEN FieldOk(v.n)
    ELSE FieldErr("invalid type")

(* Option<String>::deserialize, then unwrap_or_else "Untitled"             *)
deserialize_title(v) ==
    IF v.t = "null" THEN FieldOk("Untitled")
    ELSE IF v.t = "string" THEN FieldOk(v.s)
    ELSE FieldErr("invalid type")

(* The keys of a record whose wire value the model varies; the other keys  *)
(* arrive well formed, as the fields of rest.                              *)
WireFields == { "id", "category", "title", "word_count", "published_date" }

(* One field of the derived Deserialize of ReaderResult.  None of the five *)
(* fields has #[serde(default)]: a key that is not there is an error, for  *)
(* the required fields and for the fields with deserialize_with alike.     *)
deserialize_field(name, v) ==
    IF v.t = "missing" THEN FieldErr("missing field")
    ELSE IF name = "id" THEN (IF v.t = "string" THEN FieldOk(v.s) ELSE FieldErr("invalid type"))
    ELSE IF name = "category"
         THEN (IF v.t = "string" /\ v.s \in Category THEN FieldOk(v.s)
               ELSE FieldErr("unknown variant"))
    ELSE IF name = "title" THEN deserialize_title(v)
    ELSE IF name = "word_count" THEN deserialize_word_count(v)
    ELSE deserialize_published_date(v)

(* The derived Deserialize of ReaderResult: every field decodes or the     *)
(* record does not.                                                        *)
deserialize_result(w) ==
    LET r == [ f \in WireFields |-> deserialize_field(f, w[f]) ]
        bad == { f \in WireFields : ~r[f].ok }
    IN  IF bad = {}
        THEN [ ok |-> TRUE, path |-> "",
               val |-> [ c \in Columns |-> IF c \in WireFields THEN r[c].val ELSE w.rest[c] ] ]
        ELSE [ ok |-> FALSE, path |-> CHOOSE f \in bad : TRUE, val |-> w.rest ]

(* The record as the remote writes it.                                     *)
Encode(doc) ==
    [ id             |-> JText(doc.id),
      category       |-> JText(doc.category),
      title          |-> JText(doc.title),
      word_count     |-> JInt(doc.word_count),
      published_date |-> IF doc.published_date = None THEN JNull
                         ELSE JDateTime(doc.published_date[1]),
      rest           |-> doc ]

(* -------------------------------- db.rs -------------------------------- *)
(* Columns assigned by ON CONFLICT (id) DO UPDATE SET.                     *)
UpdatedColumns ==
    { "author", "content", "image_url", "location", "notes", "published_date",
      "reading_progress", "site_name", "source", "source_url", "summary", "tags",
      "title", "updated_at", "word_count" }

(* The reading table: for each id, no row (None) or one row (Some).        *)
EmptyReading == [ i \in Ids |-> None ]

(* Mutant: on conflict the counter columns add up instead of being         *)
(* replaced.                                                               *)
saveAccumulating(table, result) ==
    IF table[result.id] = None
    THEN [ table EXCEPT ![result.id] = Some(result) ]
    ELSE [ table EXCEPT ![result.id] =
             Some([ c \in Columns |->
                      IF c = "word_count" THEN table[result.id][1][c] + result[c]
                      ELSE IF c \in UpdatedColumns THEN result[c]
                      ELSE table[result.id][1][c] ]) ]

(* Mutant: on conflict the whole row is replaced.                          *)
saveReplacing(table, result) == [ table EXCEPT ![result.id] = Some(result) ]

(* Mutant: readwise_url is among the columns assigned on conflict.         *)
saveUpdatingUrl(table, result) ==
    IF table[result.id] = None
    THEN [ table EXCEPT ![result.id] = Some(result) ]
    ELSE [ table EXCEPT ![result.id] =
             Some([ c \in Columns |->
                      IF c \in UpdatedColumns \cup { "readwise_url" } THEN result[c]
                      ELSE table[result.id][1][c] ]) ]

save(table, result) ==
    IF table[result.id] = None
    THEN [ table EXCEPT ![result.id] = Some(result) ]
    ELSE [ table EXCEPT ![result.id] =
             Some([ c \in Columns |->
                      IF c \in UpdatedColumns THEN result[c] ELSE table[result.id][1][c] ]) ]

(* The sync_state table: no row (None) or the row id = 1 (Some).           *)
(* fetch_one fails when the store is unreachable and when no row matches. *)
LoadOk(val) == [ ok |-> TRUE, val |-> val, err |-> "none" ]
LoadErr(err) == [ ok |-> FALSE, val |-> None, err |-> err ]

(* Mutant: a NULL last_sync_at is an error instead of None.                *)
load_checkpointNullIsError(state, dbOk) ==
    IF ~dbOk THEN LoadErr("store")
    ELSE IF state = None THEN LoadErr("row_not_found")
    ELSE IF state[1].last_sync_at = None THEN LoadErr("decode")
    ELSE LoadOk(state[1].last_sync_at)

load_checkpoint(state, dbOk) ==
    IF ~dbOk THEN LoadErr("store")
    ELSE IF state = None THEN LoadErr("row_not_found")
    ELSE LoadOk(state[1].last_sync_at)

(* Mutant: the row is written only while it holds no checkpoint            *)
(* (ON CONFLICT DO NOTHING).                                               *)
save_checkpointInsertOnly(state, ts) ==
    IF state = None \/ state[1].last_sync_at = None THEN Some([ last_sync_at |-> Some(ts) ])
    ELSE state

save_checkpoint(state, ts) == Some([ last_sync_at |-> Some(ts) ])

(* The migration creates sync_state and seeds the row id = 1 with a NULL   *)
(* last_sync_at unless the row is already there.                           *)
migrate(state) == IF state = None THEN Some([ last_sync_at |-> None ]) ELSE state

Checkpoint(state) == IF state = None THEN None ELSE state[1].last_sync_at

(* -------------------------------- api.rs ------------------------------- *)
(* ts.format("%Y-%m-%dT%H:%M:%SZ"): whole seconds, the fraction is dropped. *)
FormatTs(ts) == ts \div SubSecond

build_url(cursor, updated_after) ==
    LET p1 == IF cursor # None THEN << <<"pageCursor", cursor[1]>> >> ELSE <<>>
        p2 == IF updated_after # None
              THEN << <<"updatedAfter", FormatTs(updated_after[1])>> >> ELSE <<>>
    IN  [ base |-> "https://readwise.io/api/v3/list/", params |-> p1 \o p2 ]

HasParam(u, key) == \E k \in 1..Len(u.params) : u.params[k][1] = key
ParamOf(u, key) == u.params[CHOOSE k \in 1..Len(u.params) : u.params[k][1] = key][2]

(* Retry-After header values: absent, or a text that either is the        *)
(* decimal text of the integer n or is no number at all.                   *)
HeaderText(numeric, n) == [ numeric |-> numeric, n |-> n ]
RetryAfterHeaders ==
    { None, Some(HeaderText(FALSE, 0)), Some(HeaderText(TRUE, -1)), Some(HeaderText(TRUE, 2)) }

(* v.parse::<u64>().ok()                                                   *)
parse_u64(v) == IF v.numeric /\ v.n >= 0 THEN Some(v.n) ELSE None

(* response.header("Retry-After").and_then(|v| v.parse().ok())             *)
(*     .unwrap_or_else(|| 60)                                              *)
retry_after(header) ==
    LET parsed == IF header = None THEN None ELSE parse_u64(header[1])
    IN  IF parsed = None THEN DefaultRetryAfter ELSE parsed[1]

(* The statuses ureq reports as Error::Status.                             *)
ErrorStatuses == { 404, 429, 499, 500 }
(* Mutant: every error status is retried.                                  *)
IsRetryableAnyError(code) == code >= 400

IsRetryable(code) == code = TooManyRequests \/ code >= ServerErrorFloor

(* --------------------------- the environment --------------------------- *)
(* The pages the remote can serve next when it has served n records: any   *)
(* number of the records that follow in the list.                          *)
PageBodies(n) == { SubSeq(RemoteList, n + 1, m) : m \in n..MaxRecords }

(* A decoded page.                                                         *)
WellFormed(cursor, results) == [ kind |-> "page", cursor |-> cursor, results |-> results ]

(* A response body: the JSON text of a page with its records as the remote *)
(* wrote them, a text that is no page at all, or a body whose read fails.  *)
WirePage(cursor, wires) == [ kind |-> "json", cursor |-> cursor, results |-> wires ]
Malformed == [ kind |-> "malformed", cursor |-> None, results |-> <<>> ]
Unreadable == [ kind |-> "unreadable", cursor |-> None, results |-> <<>> ]
NoBody == [ kind |-> "none", cursor |-> None, results |-> <<>> ]

(* serde_path_to_error::deserialize into ReaderResponse: the page decodes  *)
(* when the text is a page and every record of results decodes.            *)
deserialize_page(b) ==
    LET rs == [ k \in 1..Len(b.results) |-> deserialize_result(b.results[k]) ]
        bad == { k \in 1..Len(b.results) : ~rs[k].ok }
    IN  IF b.kind = "json" /\ bad = {}
        THEN [ ok |-> TRUE, val |-> WellFormed(b.cursor, [ k \in 1..Len(b.results) |-> rs[k].val ]) ]
        ELSE [ ok |-> FALSE, val |-> WellFormed(None, <<>>) ]

(* Ways a record of a page can break the structure of the page.            *)
Breakages == { << "id", JMissing >>, << "category", JInt(1) >> }
Break(wires, b) == [ wires EXCEPT ![Len(wires)] = [ @ EXCEPT ![b[1]] = b[2] ] ]

NoError == [ kind |-> "none", code |-> 0 ]
Failure(kind, code) == [ kind |-> kind, code |-> code ]

StartupFailures == { "no_database_url", "db_unreachable", "migration_failed", "no_access_token" }

(* ------------------------------- main.rs ------------------------------- *)
VARIABLES
    pc,               \* position of main
    run,              \* number of the current run
    now,              \* wall clock, in ticks
    budget,           \* retryable failures, rejected saves, kills and clock steps still to come
    sync_state,       \* table sync_state
    reading,          \* table reading
    full_sync,        \* args.full_sync
    updated_after,    \* main: updated_after
    sync_started_at,  \* main: sync_started_at
    next_page_cursor, \* main: next_page_cursor
    url,              \* main: url
    retry_header,     \* get_reading: the Retry-After header of the status being handled
    body,             \* main: body, when it could not be read or parsed
    page,             \* main: page.results
    idx,              \* main: position of the for loop in page.results
    failures,         \* main: failures
    sent,             \* get_reading: the requests sent by the current call
    waits,            \* get_reading: the sleeps of the current call, in seconds
    received,         \* get_reading: what each request of the current call was answered with
    error,            \* the Err main returned, if any
    checkpointAtStart,\* history: the checkpoint when the run started
    initialCheckpoint,\* history: the checkpoint before the first run
    lastFetchedAll,   \* history: start time of the latest run that left the page loop
    lastCommitted,    \* history: start time of the latest run that saved the checkpoint
    prev,             \* history: how the run before this one went
    loadedAt,         \* history: clock when the checkpoint was read
    firstSentAt,      \* history: clock at the first request of the run
    requests,         \* history: the urls main passed to get_reading
    served,           \* history: the pages get_reading returned
    saveLog,          \* history: the calls of save
    firstSaved,       \* history: per id, the first result saved successfully
    lastSaved         \* history: per id, the last result saved successfully

locals == << updated_after, sync_started_at, next_page_cursor, url, retry_header, body, page, idx, failures, sent,
            waits, received >>
db == << sync_state, reading >>
runHistory == << checkpointAtStart, loadedAt, firstSentAt, requests, served, saveLog, firstSaved,
                lastSaved >>
runsHistory == << initialCheckpoint, lastFetchedAll, lastCommitted, prev >>
history == << runHistory, runsHistory >>
vars == << pc, run, now, budget, full_sync, error, locals, db, history >>

Terminal == { "done", "failed", "killed" }

InitLocals ==
    /\ updated_after = None
    /\ sync_started_at = 0
    /\ next_page_cursor = None
    /\ url = build_url(None, None)
    /\ retry_header = None
    /\ page = <<>>
    /\ idx = 1
    /\ failures = 0
    /\ sent = <<>>
    /\ waits = <<>>
    /\ received = <<>>

(* What a run leaves for the history of the next one.                     *)
RunRecord(ended, incremental, loaded, asked, filter) ==
    [ ended |-> ended, incremental |-> incremental, loaded |-> loaded, asked |-> asked,
      updated_after |-> filter ]
NoPrev == RunRecord("none", FALSE, FALSE, FALSE, None)

InitState ==
    /\ run = 1
    /\ reading = EmptyReading
    /\ error = NoError
    /\ InitLocals
    /\ lastFetchedAll = None
    /\ lastCommitted = None
    /\ prev = NoPrev
    /\ loadedAt = None
    /\ firstSentAt = None
    /\ requests = <<>>
    /\ served = <<>>
    /\ saveLog = <<>>
    /\ firstSaved = EmptyReading
    /\ lastSaved = EmptyReading

(* The database before the run: fresh, migrated by a run that did not     *)
(* commit, or holding the checkpoint an earlier run committed.             *)
InitialSyncStates ==
    { None, Some([ last_sync_at |-> None ]), Some([ last_sync_at |-> Some(3) ]) }

Init ==
    /\ pc = "start"
    /\ full_sync \in BOOLEAN
    /\ sync_state \in InitialSyncStates
    /\ now = 5
    /\ checkpointAtStart = Checkpoint(sync_state)
    /\ initialCheckpoint = Checkpoint(sync_state)
    /\ budget = MaxEvents
    /\ body = NoBody
    /\ InitState

Abort(kind, code) ==
    /\ pc' = "failed"
    /\ error' = Failure(kind, code)

(* main, lines 263-273: connect, migrate, read the access token.           *)
Startup ==
    /\ pc = "start"
    /\ \/ /\ pc' = "load"
          /\ sync_state' = migrate(sync_state)
          /\ UNCHANGED error
       \/ \E f \in StartupFailures :
             /\ Abort(IF f = "db_unreachable" \/ f = "migration_failed" THEN "store" ELSE "config", 0)
             /\ sync_state' = IF f = "no_access_token" THEN migrate(sync_state) ELSE sync_state
    /\ UNCHANGED << run, now, budget, full_sync, locals, reading, history >>

(* Mutant: the checkpoint is loaded whatever the flag.                     *)
LoadCheckpointIgnoringFlag ==
    /\ pc = "load"
    /\ \E dbOk \in BOOLEAN :
         LET r == load_checkpoint(sync_state, dbOk)
         IN  IF r.ok
             THEN /\ updated_after' = r.val
                  /\ loadedAt' = Some(now)
                  /\ pc' = "clock"
                  /\ UNCHANGED error
             ELSE /\ Abort(r.err, 0)
                  /\ UNCHANGED << updated_after, loadedAt >>
    /\ UNCHANGED << run, now, budget, full_sync, db, sync_started_at, next_page_cursor,
                    url, retry_header, body, page, idx, failures, sent, waits, received, runsHistory,
                    checkpointAtStart, firstSentAt, requests, served, saveLog, firstSaved, lastSaved >>

(* main, lines 275-289.                                                    *)
LoadCheckpoint ==
    /\ pc = "load"
    /\ IF full_sync
       THEN /\ updated_after' = None
            /\ pc' = "clock"
            /\ UNCHANGED << error, loadedAt >>
       ELSE \E dbOk \in BOOLEAN :
              LET r == load_checkpoint(sync_state, dbOk)
              IN  IF r.ok
                  THEN /\ updated_after' = r.val
                       /\ loadedAt' = Some(now)
                       /\ pc' = "clock"
                       /\ UNCHANGED error
                  ELSE /\ Abort(r.err, 0)
                       /\ UNCHANGED << updated_after, loadedAt >>
    /\ UNCHANGED << run, now, budget, full_sync, db, sync_started_at, next_page_cursor,
                    url, retry_header, body, page, idx, failures, sent, waits, received, runsHistory, checkpointAtStart, firstSentAt,
                    requests, served, saveLog, firstSaved, lastSaved >>

(* main, lines 293-295.                                                    *)
CaptureStart ==
    /\ pc = "clock"
    /\ sync_started_at' = now
    /\ next_page_cursor' = None
    /\ pc' = "request"
    /\ UNCHANGED << run, now, budget, full_sync, error, db, updated_after, url, retry_header, body, page, idx,
                    failures, sent, waits, received, history >>

(* Mutant: the filter goes with the first request only.                    *)
BuildRequestFilterFirstOnly ==
    /\ pc = "request"
    /\ url' = build_url(next_page_cursor, IF next_page_cursor = None THEN updated_after ELSE None)
    /\ requests' = Append(requests, url')
    /\ sent' = <<>>
    /\ waits' = <<>>
    /\ received' = <<>>
    /\ pc' = "call"
    /\ retry_header' = None
    /\ UNCHANGED << run, now, budget, full_sync, error, db, updated_after,
                    sync_started_at, next_page_cursor, body, page, idx, failures, runsHistory, checkpointAtStart,
                    loadedAt, firstSentAt, served, saveLog, firstSaved, lastSaved >>

(* main, lines 298-301: build the url and enter get_reading.               *)
BuildRequest ==
    /\ pc = "request"
    /\ url' = build_url(next_page_cursor, updated_after)
    /\ requests' = Append(requests, build_url(next_page_cursor, updated_after))
    /\ sent' = <<>>
    /\ waits' = <<>>
    /\ received' = <<>>
    /\ pc' = "call"
    /\ retry_header' = None
    /\ UNCHANGED << run, now, budget, full_sync, error, db, updated_after,
                    sync_started_at, next_page_cursor, body, page, idx, failures, runsHistory, checkpointAtStart,
                    loadedAt, firstSentAt, served, saveLog, firstSaved, lastSaved >>

(* ureq::get(url)...call(), answered with an HTTP status (Some) or with a *)
(* transport failure (None).                                               *)
Send(answer) ==
    /\ sent' = Append(sent, url)
    /\ received' = Append(received, answer)
    /\ firstSentAt' = IF firstSentAt = None THEN Some(now) ELSE firstSentAt

(* thread::sleep(Duration::from_secs(seconds))                             *)
Sleep(seconds) ==
    /\ waits' = Append(waits, seconds)
    /\ now' = now + seconds * SubSecond

(* The remote serves at most MaxPages pages and MaxRecords records in a    *)
(* run; the cursor of a page is the number of the page that follows it.    *)
ServedRecords == Flatten([ k \in 1..Len(served) |-> served[k].results ])

Cursors == { None } \cup (IF Len(served) + 1 < MaxPages THEN { Some(Len(served) + 1) } ELSE {})
Wires(rs) == [ k \in 1..Len(rs) |-> Encode(rs[k]) ]

Bodies ==
    { WirePage(c, Wires(rs)) : c \in Cursors, rs \in PageBodies(Len(ServedRecords)) }
    \cup { WirePage(None, Break(Wires(rs), b)) :
             rs \in { SubSeq(RemoteList, Len(ServedRecords) + 1, MaxRecords) } \ { <<>> },
             b \in Breakages }
    \cup { Malformed, Unreadable }

(* Mutant: a page that does not decode is asked for again.                 *)
ResponseOkRetryingParse ==
    /\ pc = "call"
    /\ Send(Some(200))
    /\ \E b \in Bodies :
         LET r == deserialize_page(b)
         IN  /\ body' = IF r.ok THEN NoBody ELSE b
             /\ IF b.kind = "unreadable"
                THEN /\ Abort("io", 0)
                     /\ UNCHANGED << next_page_cursor, page, idx, failures, served >>
                ELSE IF r.ok
                THEN /\ next_page_cursor' = r.val.cursor
                     /\ page' = r.val.results
                     /\ idx' = 1
                     /\ failures' = 0
                     /\ served' = Append(served, r.val)
                     /\ pc' = "save"
                     /\ UNCHANGED error
                ELSE UNCHANGED << pc, error, next_page_cursor, page, idx, failures, served >>
    /\ retry_header' = None
    /\ UNCHANGED << run, now, budget, full_sync, db, updated_after, sync_started_at, url,
                    waits, runsHistory, checkpointAtStart, loadedAt, requests, saveLog, firstSaved,
                    lastSaved >>

(* get_reading, the arm Ok(response): the body is read, then parsed       *)
(* (api.rs 35-46; main.rs 301-316).                                        *)
ResponseOk ==
    /\ pc = "call"
    /\ Send(Some(200))
    /\ \E b \in Bodies :
         LET r == deserialize_page(b)
         IN  /\ body' = IF r.ok THEN NoBody ELSE b
             /\ IF b.kind = "unreadable"
                THEN /\ Abort("io", 0)
                     /\ UNCHANGED << next_page_cursor, page, idx, failures, served >>
                ELSE IF r.ok
                THEN /\ next_page_cursor' = r.val.cursor
                     /\ page' = r.val.results
                     /\ idx' = 1
                     /\ failures' = 0
                     /\ served' = Append(served, r.val)
                     /\ pc' = "save"
                     /\ UNCHANGED error
                ELSE /\ Abort("parse", 0)
                     /\ UNCHANGED << next_page_cursor, page, idx, failures, served >>
    /\ retry_header' = None
    /\ UNCHANGED << run, now, budget, full_sync, db, updated_after, sync_started_at, url,
                    waits, runsHistory, checkpointAtStart, loadedAt, requests, saveLog, firstSaved,
                    lastSaved >>

(* Mutant: the second retryable status in a row is given up on.            *)
ResponseRetryableCapped ==
    /\ pc = "call"
    /\ budget > 0
    /\ budget' = budget - 1
    /\ \E code \in ErrorStatuses, header \in RetryAfterHeaders :
         /\ IsRetryable(code)
         /\ Send(Some(code))
         /\ retry_header' = header
         /\ IF Len(waits) < 1
            THEN /\ Sleep(retry_after(header))
                 /\ UNCHANGED << pc, error >>
            ELSE /\ Abort("http", code)
                 /\ UNCHANGED << waits, now >>
    /\ UNCHANGED << run, full_sync, db, updated_after,
                    sync_started_at, next_page_cursor, url, body, page, idx, failures,
                    runsHistory, checkpointAtStart, loadedAt, requests, served, saveLog, firstSaved,
                    lastSaved >>

(* Mutant: the wait grows with the number of retries.                      *)
ResponseRetryableBackoff ==
    /\ pc = "call"
    /\ budget > 0
    /\ budget' = budget - 1
    /\ \E code \in ErrorStatuses, header \in RetryAfterHeaders :
         /\ IsRetryable(code)
         /\ Send(Some(code))
         /\ retry_header' = header
         /\ Sleep(retry_after(header) * (Len(waits) + 1))
    /\ UNCHANGED << pc, run, full_sync, error, db, updated_after,
                    sync_started_at, next_page_cursor, url, body, page, idx, failures,
                    runsHistory, checkpointAtStart, loadedAt, requests, served, saveLog, firstSaved,
                    lastSaved >>

(* get_reading, the arm Err(Status(code, response)) if code == 429 ||      *)
(* code >= 500.                                                            *)
ResponseRetryable ==
    /\ pc = "call"
    /\ budget > 0
    /\ budget' = budget - 1
    /\ \E code \in ErrorStatuses, header \in RetryAfterHeaders :
         /\ IsRetryable(code)
         /\ Send(Some(code))
         /\ retry_header' = header
         /\ Sleep(retry_after(header))
    /\ UNCHANGED << pc, run, full_sync, error, db, updated_after,
                    sync_started_at, next_page_cursor, url, body, page, idx, failures,
                    runsHistory, checkpointAtStart, loadedAt, requests, served, saveLog, firstSaved,
                    lastSaved >>

(* get_reading, the arm Err(Status(code, _)).                              *)
ResponseFatal ==
    /\ pc = "call"
    /\ \E code \in ErrorStatuses :
         /\ ~IsRetryable(code)
         /\ Send(Some(code))
         /\ Abort("http", code)
    /\ retry_header' = None
    /\ UNCHANGED << run, now, budget, full_sync, db, updated_after, sync_started_at,
                    next_page_cursor, url, body, page, idx, failures, waits, runsHistory, checkpointAtStart,
                    loadedAt, requests, served, saveLog, firstSaved, lastSaved >>

(* get_reading, the arm Err(Transport(e)).                                 *)
TransportError ==
    /\ pc = "call"
    /\ budget > 0
    /\ budget' = budget - 1
    /\ Send(None)
    /\ Sleep(TransportWait)
    /\ retry_header' = None
    /\ UNCHANGED << pc, run, full_sync, error, db, updated_after,
                    sync_started_at, next_page_cursor, url, body, page, idx, failures,
                    runsHistory, checkpointAtStart, loadedAt, requests, served, saveLog, firstSaved,
                    lastSaved >>

(* One call of save: the statement succeeds (ok) or the store rejects it.  *)
Persist(result, ok, pageNo) ==
    /\ reading' = IF ok THEN save(reading, result) ELSE reading
    /\ saveLog' = Append(saveLog, [ doc |-> result, ok |-> ok, page |-> pageNo ])
    /\ firstSaved' = IF ok /\ firstSaved[result.id] = None
                     THEN [ firstSaved EXCEPT ![result.id] = Some(result) ]
                     ELSE firstSaved
    /\ lastSaved' = IF ok THEN [ lastSaved EXCEPT ![result.id] = Some(result) ]
                    ELSE lastSaved

(* Mutant: a rejected save is propagated with ? instead of being counted.  *)
SaveRecordAborting ==
    /\ pc = "save"
    /\ idx <= Len(page)
    /\ \E ok \in BOOLEAN :
         /\ ok \/ budget > 0
         /\ budget' = IF ok THEN budget ELSE budget - 1
         /\ Persist(page[idx], ok, Len(served))
         /\ IF ok THEN UNCHANGED << pc, error >> ELSE Abort("store", 0)
    /\ idx' = idx + 1
    /\ UNCHANGED << run, now, full_sync, sync_state, updated_after, failures,
                    sync_started_at, next_page_cursor, url, retry_header, body, page, sent, waits, received,
                    runsHistory, checkpointAtStart, loadedAt, firstSentAt, requests, served >>

(* main, lines 319-327: one iteration of the for loop.                     *)
SaveRecord ==
    /\ pc = "save"
    /\ idx <= Len(page)
    /\ \E ok \in BOOLEAN :
         /\ ok \/ budget > 0
         /\ budget' = IF ok THEN budget ELSE budget - 1
         /\ Persist(page[idx], ok, Len(served))
         /\ failures' = IF ok THEN failures ELSE failures + 1
    /\ idx' = idx + 1
    /\ UNCHANGED << pc, run, now, full_sync, error, sync_state, updated_after,
                    sync_started_at, next_page_cursor, url, retry_header, body, page, sent, waits, received,
                    runsHistory, checkpointAtStart, loadedAt, firstSentAt, requests, served >>

(* Mutant: the checkpoint is saved after every page.                       *)
PageEndCheckpointing ==
    /\ pc = "save"
    /\ idx > Len(page)
    /\ pc' = IF next_page_cursor = None THEN "commit" ELSE "request"
    /\ sync_state' = save_checkpoint(sync_state, now)
    /\ lastFetchedAll' = IF next_page_cursor = None THEN Some(sync_started_at) ELSE lastFetchedAll
    /\ UNCHANGED << run, now, budget, full_sync, error, locals, reading, runHistory, initialCheckpoint, lastCommitted, prev >>

(* Mutant: the loop ends on an empty page instead of on an absent cursor.  *)
PageEndOnEmptyPage ==
    /\ pc = "save"
    /\ idx > Len(page)
    /\ pc' = IF page = <<>> THEN "commit" ELSE "request"
    /\ lastFetchedAll' = IF page = <<>> THEN Some(sync_started_at) ELSE lastFetchedAll
    /\ UNCHANGED << run, now, budget, full_sync, error, locals, db, runHistory, initialCheckpoint, lastCommitted, prev >>

(* main, lines 328-335: the end of the loop body.                          *)
PageEnd ==
    /\ pc = "save"
    /\ idx > Len(page)
    /\ pc' = IF next_page_cursor = None THEN "commit" ELSE "request"
    /\ lastFetchedAll' = IF next_page_cursor = None THEN Some(sync_started_at) ELSE lastFetchedAll
    /\ UNCHANGED << run, now, budget, full_sync, error, locals, db, runHistory, initialCheckpoint, lastCommitted, prev >>

(* Mutant: the checkpoint is the time of the commit.                       *)
CommitNow ==
    /\ pc = "commit"
    /\ \E dbOk \in BOOLEAN :
         IF dbOk
         THEN /\ sync_state' = save_checkpoint(sync_state, now)
              /\ pc' = "done"
              /\ lastCommitted' = Some(now)
              /\ UNCHANGED error
         ELSE /\ Abort("store", 0)
              /\ UNCHANGED << sync_state, lastCommitted >>
    /\ UNCHANGED << run, now, budget, full_sync, locals, reading, runHistory, initialCheckpoint, lastFetchedAll, prev >>

(* Mutant: a checkpoint that could not be saved is logged and the run      *)
(* still returns Ok.                                                       *)
CommitIgnoringFailure ==
    /\ pc = "commit"
    /\ \E dbOk \in BOOLEAN :
         /\ sync_state' = IF dbOk THEN save_checkpoint(sync_state, sync_started_at) ELSE sync_state
         /\ lastCommitted' = IF dbOk THEN Some(sync_started_at) ELSE lastCommitted
         /\ pc' = "done"
         /\ UNCHANGED error
    /\ UNCHANGED << run, now, budget, full_sync, locals, reading, runHistory, initialCheckpoint,
                    lastFetchedAll, prev >>

(* Mutant: the checkpoint is saved only when no save of the run was        *)
(* rejected.                                                               *)
CommitUnlessFailures ==
    /\ pc = "commit"
    /\ \E dbOk \in BOOLEAN :
         IF dbOk
         THEN /\ IF \E k \in 1..Len(saveLog) : ~saveLog[k].ok
                 THEN UNCHANGED << sync_state, lastCommitted >>
                 ELSE /\ sync_state' = save_checkpoint(sync_state, sync_started_at)
                      /\ lastCommitted' = Some(sync_started_at)
              /\ pc' = "done"
              /\ UNCHANGED error
         ELSE /\ Abort("store", 0)
              /\ UNCHANGED << sync_state, lastCommitted >>
    /\ UNCHANGED << run, now, budget, full_sync, locals, reading, runHistory, initialCheckpoint,
                    lastFetchedAll, prev >>

(* main, lines 337-340.                                                    *)
Commit ==
    /\ pc = "commit"
    /\ \E dbOk \in BOOLEAN :
         IF dbOk
         THEN /\ sync_state' = save_checkpoint(sync_state, sync_started_at)
              /\ pc' = "done"
              /\ lastCommitted' = Some(sync_started_at)
              /\ UNCHANGED error
         ELSE /\ Abort("store", 0)
              /\ UNCHANGED << sync_state, lastCommitted >>
    /\ UNCHANGED << run, now, budget, full_sync, locals, reading, runHistory, initialCheckpoint, lastFetchedAll, prev >>

(* The process is terminated from outside.                                 *)
Kill ==
    /\ pc \notin Terminal \cup { "store" }
    /\ budget > 0
    /\ budget' = budget - 1
    /\ pc' = "killed"
    /\ UNCHANGED << run, now, full_sync, error, locals, db, history >>

(* Time passes.                                                            *)
Tick ==
    /\ pc \notin Terminal \cup { "store" }
    /\ budget > 0
    /\ budget' = budget - 1
    /\ now' = now + 1
    /\ UNCHANGED << pc, run, full_sync, error, locals, db, history >>

(* The operator starts the program again.                                  *)
StartRun ==
    /\ pc \in Terminal
    /\ run < MaxRuns
    /\ run' = run + 1
    /\ pc' = "start"
    /\ full_sync' \in BOOLEAN
    /\ error' = NoError
    /\ updated_after' = None
    /\ sync_started_at' = 0
    /\ next_page_cursor' = None
    /\ url' = build_url(None, None)
    /\ retry_header' = None
    /\ body' = NoBody
    /\ page' = <<>>
    /\ idx' = 1
    /\ failures' = 0
    /\ sent' = <<>>
    /\ waits' = <<>>
    /\ received' = <<>>
    /\ checkpointAtStart' = Checkpoint(sync_state)
    /\ prev' = RunRecord(pc, ~full_sync, loadedAt # None, requests # <<>>, updated_after)
    /\ loadedAt' = None
    /\ firstSentAt' = None
    /\ requests' = <<>>
    /\ served' = <<>>
    /\ saveLog' = <<>>
    /\ UNCHANGED << now, budget, db, firstSaved, lastSaved, initialCheckpoint, lastFetchedAll,
                    lastCommitted >>

Next ==
    \/ Startup
    \/ LoadCheckpoint
    \/ CaptureStart
    \/ BuildRequest
    \/ ResponseOk
    \/ ResponseRetryable
    \/ ResponseFatal
    \/ TransportError
    \/ SaveRecord
    \/ PageEnd
    \/ Commit
    \/ Kill
    \/ Tick

Spec == Init /\ [][Next]_vars

(* ----------------------- a sequence of runs ---------------------------- *)
NextRuns == Next \/ StartRun

(* The first run of a sequence starts as a single run does; fewer         *)
(* disturbances happen over the whole sequence.                            *)
InitRuns ==
    /\ pc = "start"
    /\ full_sync \in BOOLEAN
    /\ sync_state \in InitialSyncStates
    /\ now = 5
    /\ checkpointAtStart = Checkpoint(sync_state)
    /\ initialCheckpoint = Checkpoint(sync_state)
    /\ budget = MaxRunEvents
    /\ body = NoBody
    /\ InitState

SpecRuns == InitRuns /\ [][NextRuns]_vars

(* --------------------- the upsert writer on its own -------------------- *)
InitStore ==
    /\ pc = "store"
    /\ full_sync = FALSE
    /\ sync_state = None
    /\ now = 0
    /\ checkpointAtStart = None
    /\ initialCheckpoint = None
    /\ budget = MaxEvents
    /\ body = NoBody
    /\ InitState

(* save is called with any Document, on any table earlier calls have left. *)
PersistAny ==
    /\ pc = "store"
    /\ Len(saveLog) < MaxPersists
    /\ \E result \in Documents, ok \in BOOLEAN : Persist(result, ok, 0)
    /\ UNCHANGED << pc, run, now, budget, full_sync, error, locals, sync_state,
                    runsHistory, checkpointAtStart, loadedAt, firstSentAt, requests, served >>

NextStore == PersistAny

SpecStore == InitStore /\ [][NextStore]_vars

(* ------------------------ the decoder on its own ----------------------- *)
(* The values each varied key of a record comes with.                      *)
WireValues ==
    [ id             |-> { JText("a"), JMissing, JInt(1) },
      category       |-> { JText("pdf"), JText("blog"), JMissing },
      title          |-> { JText("B"), JNull, JMissing, JInt(1) },
      word_count     |-> { JInt(100), JNull, JMissing, JFloat, JText("many") },
      published_date |-> { JNull, JMissing, JInt(1), JFar, JFloat, JDateTime(7), JDate(1),
                           JText("not-a-date"), JBool, JObject } ]

WireRecords ==
    { [ id |-> i, category |-> c, title |-> ti, word_count |-> w, published_date |-> p,
        rest |-> ReaderResult("a", 2) ] :
        i \in WireValues.id, c \in WireValues.category, ti \in WireValues.title,
        w \in WireValues.word_count, p \in WireValues.published_date }

InitDecode ==
    /\ pc = "decode"
    /\ full_sync = FALSE
    /\ sync_state = None
    /\ now = 0
    /\ checkpointAtStart = None
    /\ initialCheckpoint = None
    /\ budget = MaxEvents
    /\ body \in { WirePage(None, << w >>) : w \in WireRecords }
    /\ InitState

(* The body of a page with one record is parsed.                           *)
Decode ==
    /\ pc = "decode"
    /\ LET r == deserialize_page(body)
       IN  IF r.ok
           THEN /\ page' = r.val.results
                /\ pc' = "decoded"
                /\ UNCHANGED error
           ELSE /\ Abort("parse", 0)
                /\ UNCHANGED page
    /\ UNCHANGED << run, now, budget, full_sync, db, history, updated_after, sync_started_at,
                    next_page_cursor, url, retry_header, body, idx, failures, sent, waits, received >>

NextDecode == Decode

SpecDecode == InitDecode /\ [][NextDecode]_vars

(* ============================== properties ============================= *)
Last(q) == q[Len(q)]
LoopLeft == pc \in { "commit", "done" }
SavedDocs == [ k \in 1..Len(saveLog) |-> saveLog[k].doc ]
FailedOnPage(n) == Cardinality({ k \in 1..Len(saveLog) : saveLog[k].page = n /\ ~saveLog[k].ok })

(* The table that the successful saves of a log build, in their order.     *)
RECURSIVE Replay(_)
Replay(log) ==
    IF log = <<>> THEN EmptyReading
    ELSE LET before == Replay(SubSeq(log, 1, Len(log) - 1))
         IN  IF Last(log).ok THEN save(before, Last(log).doc) ELSE before

(* C1: until the commit step has succeeded the stored checkpoint is the    *)
(* one the run started with, also when the run has failed fatally or was   *)
(* killed.                                                                 *)
CheckpointUntouchedBeforeCommit ==
    pc # "done" => Checkpoint(sync_state) = checkpointAtStart

(* A fetch of the second page fails fatally after the records of the first *)
(* page were saved, in a run that started with a checkpoint.               *)
WitnessFatalOnSecondPage ==
    /\ pc = "failed"
    /\ error.kind \in { "http", "parse" }
    /\ Len(served) = 1
    /\ saveLog # <<>>
    /\ checkpointAtStart # None

(* C2: a run that fetched all pages has saved sync_started_at, which was   *)
(* read from the clock after the checkpoint was loaded and not after the   *)
(* first request was sent.                                                 *)
CommitsRunStart ==
    /\ pc = "done" => Checkpoint(sync_state) = Some(sync_started_at)
    /\ (loadedAt # None /\ pc \notin { "start", "load", "clock", "failed", "killed" })
          => loadedAt[1] <= sync_started_at
    /\ firstSentAt # None => sync_started_at <= firstSentAt[1]

(* A run of two pages with a retry wait has committed: the clock is past   *)
(* the start of the run.                                                   *)
WitnessCommitAfterWaits ==
    /\ pc = "done"
    /\ Len(served) = MaxPages
    /\ waits # <<>>
    /\ sync_started_at < now

(* C3 as stated: only the first request of a run carries updatedAfter.     *)
FilterOnFirstRequestOnly ==
    \A k \in 2..Len(requests) : ~HasParam(requests[k], "updatedAfter")

(* C3: every request of an incremental run carries the checkpoint, in     *)
(* whole seconds, as updatedAfter, the first without a cursor and each     *)
(* later one next to the continuation cursor; a run without a checkpoint   *)
(* or with the full-sync flag sends no updatedAfter at all.                *)
FilterOnEveryRequest ==
    /\ updated_after # None => ~full_sync /\ updated_after = checkpointAtStart
    /\ \A k \in 1..Len(requests) :
         /\ HasParam(requests[k], "updatedAfter") <=> updated_after # None
         /\ updated_after # None
               => ParamOf(requests[k], "updatedAfter") = FormatTs(updated_after[1])
         /\ HasParam(requests[k], "pageCursor") <=> k > 1

(* The second request of an incremental run has been built.                *)
WitnessSecondIncrementalRequest ==
    /\ Len(requests) = 2
    /\ updated_after # None

(* C4: the k-th request carries the cursor of page k - 1 and the first     *)
(* none, the records go to save once each in the order served, and the     *)
(* loop is left after the first page without a cursor, with every page     *)
(* requested once and every record handed to save.                         *)
PaginationTerminates ==
    /\ Len(requests) \in { Len(served), Len(served) + 1 }
    /\ \A k \in 1..Len(requests) :
         IF k = 1 THEN ~HasParam(requests[k], "pageCursor")
         ELSE /\ served[k - 1].cursor # None
              /\ HasParam(requests[k], "pageCursor")
              /\ ParamOf(requests[k], "pageCursor") = served[k - 1].cursor[1]
    /\ SavedDocs = SubSeq(ServedRecords, 1, Len(saveLog))
    /\ LoopLeft =>
         /\ Len(requests) = Len(served)
         /\ Last(served).cursor = None
         /\ SavedDocs = ServedRecords

(* A run of two pages, each with a record, has left the loop.              *)
WitnessTwoPagesDone ==
    /\ pc = "done"
    /\ Len(served) = 2
    /\ served[1].results # <<>>
    /\ served[2].results # <<>>

(* C5: every request of one call is the same url; an answer that is a 429, *)
(* a 5xx or a transport failure is followed by one wait and the call goes  *)
(* on; when the answer after n such failures is a 200 with a well-formed   *)
(* body the page is returned after n waits and n + 1 sends.                *)
RetryableAnswer(a) == a = None \/ a[1] = 429 \/ a[1] \in 500..599

RetriesUntilSuccess ==
    /\ Len(sent) = Len(received)
    /\ \A k \in 1..Len(sent) : sent[k] = Last(requests)
    /\ (received # <<>> /\ RetryableAnswer(Last(received)))
          => /\ pc \in { "call", "killed" }
             /\ Len(waits) = Len(received)
             /\ error = NoError
    /\ (received # <<>> /\ Last(received) = Some(200))
          => /\ Len(waits) = Len(received) - 1
             /\ \A k \in 1..Len(waits) : RetryableAnswer(received[k])
             /\ error.kind \notin { "parse", "io" } => Len(served) = Len(requests)

(* Two retryable failures, then a page.                                    *)
WitnessTwoRetriesThenPage ==
    /\ pc = "save"
    /\ Len(waits) = 2
    /\ Len(sent) = 3
    /\ Last(received) = Some(200)

(* C6: a 4xx status other than 429 is the last answer of the run: no wait  *)
(* and no request follows it, the run has failed with that status in the   *)
(* error, and the checkpoint is untouched.                                 *)
FatalStatus(a) == a # None /\ a[1] \in 400..499 /\ a[1] # 429

NonRetryableStatusAborts ==
    \A k \in 1..Len(received) :
        FatalStatus(received[k])
           => /\ k = Len(received)
              /\ Len(waits) = k - 1
              /\ Len(sent) = k
              /\ pc = "failed"
              /\ error = Failure("http", received[k][1])
              /\ Len(requests) = Len(served) + 1
              /\ Checkpoint(sync_state) = checkpointAtStart

(* A 4xx status has ended a run that had already waited once.              *)
WitnessFatalStatus ==
    /\ received # <<>>
    /\ FatalStatus(Last(received))
    /\ Len(waits) = 1

(* C7: the failure count is the number of rejected saves of the current    *)
(* page; a rejected save stops neither the page nor the run: the records   *)
(* go on to save in the order served, the table holds every record whose   *)
(* save succeeded, and the loop is left after all of them.                 *)
RecordFailuresTolerated ==
    /\ failures = FailedOnPage(Len(served))
    /\ SavedDocs = SubSeq(ServedRecords, 1, Len(saveLog))
    /\ reading = Replay(saveLog)
    /\ \A k \in 1..Len(saveLog) : saveLog[k].ok => reading[saveLog[k].doc.id] # None
    /\ (LoopLeft \/ (pc = "failed" /\ error.kind = "store" /\ served # <<>>))
          => Len(saveLog) = Len(ServedRecords)
    /\ (pc = "save" /\ idx <= Len(page)) => Len(saveLog) < Len(ServedRecords)

(* A save was rejected and a record of a later page was saved.             *)
WitnessFailedThenSaved ==
    /\ pc = "done"
    /\ \E k \in 1..Len(saveLog), j \in 1..Len(saveLog) :
         /\ ~saveLog[k].ok
         /\ saveLog[j].ok
         /\ saveLog[j].page > saveLog[k].page

(* C8: saving a Document a second time changes nothing, on any table.      *)
PersistIdempotent ==
    \A d \in Documents : save(save(reading, d), d) = save(reading, d)

(* The same Document was saved twice in a row, onto a row that an earlier  *)
(* payload had created.                                                    *)
WitnessSavedTwice ==
    /\ Len(saveLog) = 3
    /\ \A k \in 1..3 : saveLog[k].ok
    /\ saveLog[2].doc = saveLog[3].doc
    /\ saveLog[1].doc.id = saveLog[2].doc.id
    /\ saveLog[1].doc # saveLog[2].doc

(* C9: a stored row has the mutable fields of the last Document saved      *)
(* under its id and the id, category, created_at and parent_id of the      *)
(* first; a row exists exactly for the ids that were saved.                *)
MutableFields ==
    { "author", "content", "image_url", "location", "notes", "published_date",
      "reading_progress", "site_name", "source", "source_url", "summary", "tags", "title",
      "updated_at", "word_count" }
ImmutableFields == { "id", "category", "created_at", "parent_id" }

LastWriteWins ==
    \A i \in Ids :
        IF firstSaved[i] = None THEN reading[i] = None
        ELSE /\ reading[i] # None
             /\ \A c \in MutableFields : reading[i][1][c] = lastSaved[i][1][c]
             /\ \A c \in ImmutableFields : reading[i][1][c] = firstSaved[i][1][c]

(* An id was saved with two payloads while the other id has a row.         *)
WitnessOverwritten ==
    \E i \in Ids, j \in Ids :
        /\ i # j
        /\ firstSaved[i] # None
        /\ lastSaved[i] # firstSaved[i]
        /\ reading[j] # None

Decoded == pc \in { "decoded", "failed" } /\ body.kind = "json" /\ Len(body.results) = 1
OtherFieldsDecode(w, f) == \A g \in WireFields \ { f } : deserialize_field(g, w[g]).ok

(* The published_date the specification gives for a wire value: an epoch  *)
(* integer and a date/time string are the instant they name, a date-only   *)
(* string is midnight UTC of its day, everything else is absent.           *)
PublishedDateAsSpecified(v) ==
    IF v.t = "number" /\ v.form = "int" THEN Some(v.n * SubSecond)
    ELSE IF v.t = "string" /\ v.form = "rfc3339" THEN Some(v.n)
    ELSE IF v.t = "string" /\ v.form = "date" THEN Some(v.n * DaySeconds * SubSecond)
    ELSE None

(* C11: decoding published_date never fails the record: whatever JSON     *)
(* value the key holds, a record whose other fields decode is decoded,     *)
(* with the instant the value names or, for every value that names none    *)
(* (unparseable string, out-of-range epoch, non-integer number, other      *)
(* shape), with an absent published_date.                                  *)
PublishedDateNeverFailsRecord ==
    Decoded =>
        LET w == body.results[1]
        IN  (w.published_date.t # "missing" /\ OtherFieldsDecode(w, "published_date"))
            => /\ pc = "decoded"
               /\ page[1].published_date = PublishedDateAsSpecified(w.published_date)

(* C12: a record whose title is null or missing decodes with the title    *)
(* "Untitled", a record whose word_count is null or missing decodes with   *)
(* the word_count 0, and in neither case does the record or its page fail  *)
(* to decode.                                                              *)
DefaultsNeverFailRecord ==
    Decoded =>
        LET w == body.results[1]
        IN  /\ (w.title.t \in { "null", "missing" } /\ OtherFieldsDecode(w, "title"))
               => (pc = "decoded" /\ page[1].title = "Untitled")
            /\ (w.word_count.t \in { "null", "missing" } /\ OtherFieldsDecode(w, "word_count"))
               => (pc = "decoded" /\ page[1].word_count = 0)

(* The errors main returns.                                                *)
FatalKinds == { "store", "row_not_found", "config", "http", "parse", "io" }
AllPagesFetched == served # <<>> /\ Last(served).cursor = None /\ Len(requests) = Len(served)
CheckpointSaved == lastCommitted = Some(sync_started_at) /\ Checkpoint(sync_state) = lastCommitted

(* C13: main returns Ok exactly when every page was fetched and parsed and *)
(* the checkpoint was saved, however many saves of records were rejected;  *)
(* it returns Err on every fatal error, and a rejected save of a record is *)
(* never the error it returns.                                             *)
ExitStatusTellsCommit ==
    /\ pc = "done" => (error = NoError /\ AllPagesFetched /\ CheckpointSaved)
    /\ pc = "failed" => (error.kind \in FatalKinds /\ ~CheckpointSaved)
    /\ error # NoError => pc = "failed"
    /\ (pc = "failed" /\ error.kind = "store") => (requests = <<>> \/ AllPagesFetched)
    /\ (pc = "failed" /\ error.kind \in { "http", "parse", "io" }) => ~AllPagesFetched

(* The run has returned Ok although a save of a record of each of two     *)
(* pages was rejected.                                                     *)
WitnessOkWithRejectedSaves ==
    /\ pc = "done"
    /\ FailedOnPage(1) > 0
    /\ FailedOnPage(2) > 0

(* A call of get_reading has returned an error: a request of the run was  *)
(* answered with no page.                                                  *)
GetReadingFailed == pc = "failed" /\ received # <<>> /\ Len(requests) = Len(served) + 1

(* C14: get_reading returns an error only for a status that is not        *)
(* retryable or for a body that fails the structural parse; a transport    *)
(* failure never surfaces, at whatever point of the request or of the      *)
(* response it occurs.                                                     *)
RetryableNeverSurfaces ==
    GetReadingFailed =>
        \/ error.kind = "http" /\ ~IsRetryable(error.code)
        \/ error.kind = "parse"

(* C15: the wait before a retry is the number of seconds of the           *)
(* Retry-After header when the header is there and is the text of a        *)
(* non-negative integer, 60 seconds otherwise, for a retryable status, and *)
(* 30 seconds for a transport failure, whatever the number of retries      *)
(* before it.                                                              *)
WaitAsSpecified ==
    /\ (pc = "call" /\ waits # <<>>) =>
           /\ Len(waits) = Len(received)
           /\ Last(waits) =
                 IF Last(received) = None THEN TransportWait
                 ELSE IF retry_header # None /\ retry_header[1].numeric /\ retry_header[1].n >= 0
                      THEN retry_header[1].n
                      ELSE DefaultRetryAfter
    /\ \A k \in 1..Len(waits) : received[k] = None <=> waits[k] = TransportWait

(* The second retry of a call waits the two seconds its header asks for,   *)
(* after a first retry that waited for a transport failure.                *)
WitnessSecondWaitFromHeader ==
    /\ pc = "call"
    /\ Len(waits) = 2
    /\ received[1] = None
    /\ retry_header = Some(HeaderText(TRUE, 2))
    /\ waits[2] = 2

(* C16: when the body of page k fails the structural parse the run aborts *)
(* on the spot: the answer is not retried, no record of page k is          *)
(* persisted, what the pages before k persisted stays stored, and no page  *)
(* after k is requested.                                                   *)
ParseFailureAborts ==
    (body.kind \in { "json", "malformed" } /\ ~deserialize_page(body).ok) =>
        /\ pc = "failed"
        /\ error.kind = "parse"
        /\ Last(received) = Some(200)
        /\ Len(waits) = Len(received) - 1
        /\ Len(requests) = Len(served) + 1
        /\ \A j \in 1..Len(saveLog) : saveLog[j].page < Len(requests)
        /\ reading = Replay(saveLog)

(* The second page holds a record without id; a record of the first page  *)
(* is stored.                                                              *)
WitnessBrokenRecordOnSecondPage ==
    /\ pc = "failed"
    /\ body.kind = "json"
    /\ Len(requests) = 2
    /\ body.results # <<>>
    /\ Last(body.results).id = JMissing
    /\ \E i \in Ids : reading[i] # None

(* C17: a run with the full-sync flag does not read the stored checkpoint, *)
(* sends no request with updatedAfter whatever checkpoint is stored, and   *)
(* when it completes has overwritten the checkpoint with its start time.   *)
FullSyncIgnoresCheckpoint ==
    full_sync =>
        /\ loadedAt = None
        /\ updated_after = None
        /\ error.kind # "row_not_found"
        /\ \A k \in 1..Len(requests) : ~HasParam(requests[k], "updatedAfter")
        /\ \A k \in 1..Len(sent) : ~HasParam(sent[k], "updatedAfter")
        /\ pc = "done" => Checkpoint(sync_state) = Some(sync_started_at)

(* A full-sync run over a stored checkpoint has fetched two pages and has  *)
(* replaced the checkpoint.                                                *)
WitnessFullSyncOverCheckpoint ==
    /\ full_sync
    /\ pc = "done"
    /\ checkpointAtStart # None
    /\ Len(requests) = 2
    /\ Checkpoint(sync_state) # checkpointAtStart

(* The first request of an incremental run started on the present store.  *)
NextIncrementalUrl == build_url(None, load_checkpoint(sync_state, TRUE).val)

(* C18: once all pages are fetched nothing but the store can keep the run  *)
(* from committing, and the run that has returned Ok has saved its start   *)
(* time however many saves were rejected: the next incremental run asks    *)
(* for what was updated after that start time, which leaves out a record   *)
(* whose save was rejected.                                                *)
CommitIgnoresFailures ==
    /\ lastFetchedAll # None =>
           (pc \in { "commit", "done", "killed" } \/ (pc = "failed" /\ error.kind = "store"))
    /\ pc = "done" =>
           /\ Checkpoint(sync_state) = Some(sync_started_at)
           /\ HasParam(NextIncrementalUrl, "updatedAfter")
           /\ ParamOf(NextIncrementalUrl, "updatedAfter") = FormatTs(sync_started_at)

(* The run has returned Ok and moved the checkpoint although every save    *)
(* was rejected and nothing is stored.                                     *)
WitnessCommittedNothingStored ==
    /\ pc = "done"
    /\ Len(saveLog) = 2
    /\ \A k \in 1..Len(saveLog) : ~saveLog[k].ok
    /\ reading = EmptyReading
    /\ Checkpoint(sync_state) # checkpointAtStart

(* Option<DateTime>: None is before every instant.                        *)
NotAfter(a, b) == a = None \/ (b # None /\ a[1] <= b[1])
Aborted(r) == r.ended \in { "failed", "killed" }

(* C19 as stated: over a sequence of runs the stored checkpoint is its     *)
(* initial value or the start time of the most recent run that fetched all *)
(* pages, it never decreases, and an incremental run that follows an       *)
(* aborted run sends the updatedAfter the aborted run used.                *)
CheckpointIsLatestFetchedAll ==
    /\ \/ Checkpoint(sync_state) = initialCheckpoint
       \/ Checkpoint(sync_state) = lastFetchedAll
    /\ NotAfter(checkpointAtStart, Checkpoint(sync_state))
    /\ (Aborted(prev) /\ prev.asked /\ ~full_sync /\ loadedAt # None)
           => updated_after = prev.updated_after

(* C19, amended: over a sequence of runs the stored checkpoint is its      *)
(* initial value until a run has saved it and from then on the start time  *)
(* of the most recent run that saved it; it never decreases; and an        *)
(* incremental run that follows an aborted incremental run sends the       *)
(* updatedAfter the aborted run had loaded.                                *)
CheckpointIsLatestCommitted ==
    /\ Checkpoint(sync_state) = IF lastCommitted = None THEN initialCheckpoint ELSE lastCommitted
    /\ NotAfter(checkpointAtStart, Checkpoint(sync_state))
    /\ NotAfter(initialCheckpoint, Checkpoint(sync_state))
    /\ (Aborted(prev) /\ prev.incremental /\ prev.loaded /\ ~full_sync /\ loadedAt # None)
           => updated_after = prev.updated_after

(* The second run, incremental, follows an incremental run that aborted    *)
(* after its first request, has loaded the checkpoint that run had loaded, *)
(* and has committed a later start time.                                   *)
WitnessCommitAfterAbortedRun ==
    /\ run = 2
    /\ pc = "done"
    /\ ~full_sync
    /\ Aborted(prev) /\ prev.incremental /\ prev.asked
    /\ updated_after # None
    /\ Checkpoint(sync_state) # initialCheckpoint
    /\ sync_started_at > updated_after[1] + 1

(* C20: the stored readwise_url of an id is the one of the first save of  *)
(* the id that succeeded, whatever readwise_url later saves of the id      *)
(* carried, although readwise_url is not in the list of immutable fields.  *)
ReadwiseUrlWrittenOnce ==
    /\ "readwise_url" \notin ImmutableFields
    /\ \A i \in Ids :
          firstSaved[i] # None =>
              /\ reading[i] # None
              /\ reading[i][1].readwise_url = firstSaved[i][1].readwise_url

(* An id was saved again with another readwise_url and with another title: *)
(* the row has the new title.                                              *)
WitnessUrlKeptTitleReplaced ==
    \E i \in Ids :
        /\ firstSaved[i] # None
        /\ lastSaved[i][1].readwise_url # firstSaved[i][1].readwise_url
        /\ reading[i][1].title = lastSaved[i][1].title
        /\ reading[i][1].title # firstSaved[i][1].title

====
